---- MODULE Spec2Model ----
(***************************************************************************)
(* Complaint tracker: the hosted store (tables, row-level-security         *)
(* policies, triggers, attachment bucket) of the migration, and the page   *)
(* components that call it.  Every principal can reach the store through   *)
(* its public API with the payload of its choice; the policies are the     *)
(* only server-side guard.  The handlers of the pages are operations of    *)
(* the signed-in principal whose browser runs them.                        *)
(***************************************************************************)
EXTENDS Integers, Sequences, FiniteSets, TLC

\* ---- bounds ----
NumUsers == 2
MaxComplaints == 2
MaxMessages == 2
MaxFiles == 1
MaxClock == 1
\* length of the histories explored
MaxOps == 4
\* files picked in one file-dialog selection on the form
MaxSelect == 2
\* status changes and assignments made on the manager dashboards
MaxClicks == 3

\* ---- limits written in the code ----
TitleMin == 5
TitleMax == 200
DescriptionMin == 20
DescriptionMax == 2000
HubMin == 2
HubMax == 100
RoomMax == 100
\* file.size > 10 * 1024 * 1024 is refused
MaxFileSize == 10485760
\* .slice(0, 5)
MaxPendingFiles == 5

\* ---- values ----
\* SQL NULL / JS null / undefined
NULL == 0
\* auth.users ids
Users == 1..NumUsers
\* gen_random_uuid() for complaints: fresh, and never equal to an auth uid
ComplaintUuid(n) == NumUsers + n
ComplaintIds == {ComplaintUuid(n) : n \in 1..MaxComplaints}

Roles == {"student", "manager", "admin"}
Statuses == {"new", "acknowledged", "in_progress", "resolved", "closed"}
StaffRoles == {"manager", "admin"}
Bucket == "complaint-attachments"
Categories == {"facilities", "equipment", "network", "classroom", "hygiene", "safety", "other"}
Priorities == {"low", "medium", "high"}

\* ---- text ----
\* A string is kept as <<l, c, t>>: l leading whitespace characters, then c
\* characters that start and end with a non-whitespace character, then t
\* trailing whitespace characters (a whitespace-only string is <<l, 0, 0>>).
Str(l, c, t) == <<l, c, t>>
\* JS null in a place where a string may stand
NullStr == <<>>
\* JS undefined in such a place
Undefined == <<0>>
\* String.prototype.length
StrLen(s) == s[1] + s[2] + s[3]
\* String.prototype.trim
Trim(s) == IF s[2] = 0 THEN Str(0, 0, 0) ELSE Str(0, s[2], 0)
\* `s || null`
OrNull(s) == IF s = NullStr \/ StrLen(s) = 0 THEN NullStr ELSE s

VARIABLES
  profiles,     \* public.profiles: uid -> [role, is_verified]
  complaints,   \* public.complaints: id -> row
  messages,     \* public.messages, in insertion order
  attachments,  \* public.attachments
  objects,      \* storage.objects: set of [bucket_id, name]
  now,          \* latest clock value read (Date.now())
  ui,           \* per principal, the React state its browser holds:
                \*   profile   - ManagerDashboard's profile ("none" = null)
                \*   complaint - id of ComplaintDetail's complaint (NULL = null)
                \*   files     - SubmitComplaint's files
                \*   complaints, stats, filteredComplaints, searchQuery,
                \*   statusFilter, priorityFilter, hubFilter - ManagerDashboard's
                \*   requests  - fetchComplaints requests on their way to the store
                \*   responses - their responses on the way back
  last,         \* the last operation: request, response, what the handler showed
  ops           \* number of operations so far

store == <<profiles, complaints, messages, attachments, objects>>
vars == <<profiles, complaints, messages, attachments, objects, now, ui, last, ops>>

\* every operation is one step of the history
Tick == ops < MaxOps /\ ops' = ops + 1

\* NOW() in the statements of the operation being taken: every operation is
\* a request of its own and reads a later time than the ones before it
Now == ops + 1
\* timestamps a payload may carry instead of leaving the column to its default
PastTime == 1
FutureTime == MaxOps + 2

\* ---- the row-level-security policies ----

\* EXISTS (SELECT 1 FROM profiles WHERE id = auth.uid() AND role IN ('manager','admin'))
IsStaff(uid) == uid \in DOMAIN profiles /\ profiles[uid].role \in StaffRoles

RoleOf(uid) == IF uid \in DOMAIN profiles THEN profiles[uid].role ELSE "none"

\* "Users can update own profile"
ProfilesUpdateUsing(uid, id) == uid = id

\* "Students can view own complaints"
ComplaintsSelectUsingAll(uid, row) == TRUE
ComplaintsSelectUsing(uid, row) == uid = row.user_id \/ IsStaff(uid)

\* "Students can create complaints"
ComplaintsInsertCheckAny(uid, row) == TRUE
ComplaintsInsertCheck(uid, row) == uid = row.user_id \/ row.is_anonymous = TRUE

\* "Managers can update complaints"
ComplaintsUpdateUsingOwner(uid, row) == uid = row.user_id \/ IsStaff(uid)
ComplaintsUpdateUsing(uid, row) == IsStaff(uid)

\* "Users can create messages"
MessagesInsertCheck(uid, m) == uid = m.sender_id \/ m.sender_id = NULL

\* "Users can view messages for accessible complaints"
MessagesSelectUsing(uid, m) ==
  \E id \in DOMAIN complaints :
    id = m.complaint_id /\ (complaints[id].user_id = uid \/ IsStaff(uid))

\* messages has row-level security enabled and no UPDATE or DELETE policy:
\* no row passes
MessagesUpdateUsingSender(uid, m) == uid = m.sender_id
MessagesUpdateUsing(uid, m) == FALSE
MessagesDeleteUsing(uid, m) == FALSE

\* complaints has row-level security enabled and no DELETE policy
ComplaintsDeleteUsing(uid, row) == FALSE

\* "Users can upload attachments" (table attachments)
AttachmentsInsertCheck(uid, a) == uid = a.uploader_id \/ a.uploader_id = NULL

\* storage.foldername(name): the path segments before the file name
StorageFoldername(name) == SubSeq(name, 1, Len(name) - 1)

\* "Users can upload attachments" (storage.objects)
ObjectsInsertCheck(uid, obj) == obj.bucket_id = Bucket /\ uid # NULL

\* "Users can view attachments for their complaints"
ObjectsSelectUsing(uid, obj) ==
  obj.bucket_id = Bucket /\
    (uid = StorageFoldername(obj.name)[1] \/ IsStaff(uid))

\* ---- requests and responses ----
NoError == "none"
\* new row violates row-level security policy
RlsViolation == "42501"
\* foreign key violation
FkViolation == "23503"
\* invalid input value for enum user_role
InvalidEnum == "22P02"
\* .single(): the result contains 0 rows
NoRows == "PGRST116"
\* storage: object not found
ObjectNotFound == "404"
\* storage: the resource already exists
Duplicate == "409"
\* complaintSchema.parse threw; no request was sent
ZodError == "ZodError"
\* the handler returned before sending any request
Returned == "returned"
\* the request got no response (TypeError: Failed to fetch)
FetchFailed == "FetchError"

\* a request sent straight to the store, and the error of its response
Request(op, caller, target, error) ==
  [op |-> op, caller |-> caller, role |-> RoleOf(caller), target |-> target, error |-> error,
   toast |-> "none", route |-> "none", rows |-> <<>>, before |-> "none", arg |-> "none",
   anonymous |-> FALSE]

\* a handler run: its store request and response, the notification it
\* showed, the route it navigated to and the rows it put on the page
Handled(op, caller, target, error, toastMsg, route, rows) ==
  [op |-> op, caller |-> caller, role |-> RoleOf(caller), target |-> target, error |-> error,
   toast |-> toastMsg, route |-> route, rows |-> rows, before |-> "none", arg |-> "none",
   anonymous |-> FALSE]

\* (before: the status the target complaint had; arg: the form a submission
\* read, the text of the message box, the files selected, the status asked for;
\* anonymous: the position of the switch of the form at a submission)

\* status of complaint id before the operation ("none" when there is no such row)
StatusOf(id) == IF id \in DOMAIN complaints THEN complaints[id].status ELSE "none"

\* the value 'all' of the hub Select, spelled out like the hubs it stands next to
AllHubs == <<"a", "l", "l">>

\* the React state of a browser in which no page has loaded anything
NoPage ==
  [profile |-> "none", complaint |-> NULL, files |-> <<>>,
   complaints |-> <<>>, stats |-> [total |-> 0, new |-> 0, inProgress |-> 0, resolved |-> 0],
   filteredComplaints |-> <<>>,
   searchQuery |-> <<>>, statusFilter |-> "all", priorityFilter |-> "all", hubFilter |-> AllHubs,
   requests |-> 0, responses |-> {}]

\* ---- Init ----
\* the store after the migration; no browser has loaded anything
Init ==
  /\ profiles = <<>>
  /\ complaints = <<>>
  /\ messages = <<>>
  /\ attachments = {}
  /\ objects = {}
  /\ now = 0
  /\ ui = [u \in Users |-> NoPage]
  /\ last = Request("none", NULL, NULL, NoError)
  /\ ops = 0

\* ---- identities and profiles ----

\* what a registering client may put under raw_user_meta_data->>'role'
MetaRoles == {"absent"} \cup Roles \cup {"owner"}

\* handle_new_user: the role inserted for NEW.raw_user_meta_data->>'role'
NewUserRole(metaRole) == IF metaRole = "absent" THEN "student" ELSE metaRole

\* auth.signUp: INSERT INTO auth.users, then trigger on_auth_user_created
\* (uids are handed out to the principals in the order they register)
SignUp(u, metaRole) ==
  /\ Tick
  /\ u = Cardinality(DOMAIN profiles) + 1
  /\ IF NewUserRole(metaRole) \in Roles
       THEN /\ profiles' = (u :> [role |-> NewUserRole(metaRole), is_verified |-> FALSE]) @@ profiles
            /\ last' = Request("signUp", u, u, NoError)
       ELSE \* the cast to user_role raises; the trigger aborts the sign-up
            /\ profiles' = profiles
            /\ last' = Request("signUp", u, u, InvalidEnum)
  /\ UNCHANGED <<complaints, messages, attachments, objects, now, ui>>

\* setup guide step 4: the operator edits the role column in the Cloud
\* Dashboard table editor (service role, no policy applies)
UpdateUserRole(u, r) ==
  /\ Tick
  /\ u \in DOMAIN profiles
  /\ profiles[u].role # r
  /\ profiles' = [profiles EXCEPT ![u].role = r]
  /\ last' = Request("cloudDashboard", NULL, u, NoError)
  /\ UNCHANGED <<complaints, messages, attachments, objects, now, ui>>

\* UPDATE profiles SET role = r, is_verified = v WHERE id = :id, as caller
\* (a patch that repeats the stored values is a name/contact-only update)
ApiUpdateProfile(caller, id, r, v) ==
  /\ Tick
  /\ caller \in DOMAIN profiles
  /\ id \in DOMAIN profiles
  /\ profiles' = IF ProfilesUpdateUsing(caller, id)
                   THEN [profiles EXCEPT ![id] = [role |-> r, is_verified |-> v]]
                   ELSE profiles
  /\ last' = Request("updateProfile", caller, id, NoError)
  /\ UNCHANGED <<complaints, messages, attachments, objects, now, ui>>

\* ---- complaints ----

\* the fields of a complaint a form or a payload fills in
BaseData ==
  [title |-> Str(0, TitleMin, 0), description |-> Str(0, DescriptionMin, 0), category |-> "network",
   hub |-> Str(0, 9, 0), room |-> Str(0, 2, 0), priority |-> "high"]

\* the row INSERT INTO complaints stores for a payload: column defaults for
\* the columns it leaves out (created_at = NULL: left to DEFAULT NOW())
ComplaintRow(user_id, is_anonymous, data, created_at) ==
  [user_id |-> user_id, manager_id |-> NULL,
   title |-> data.title, description |-> data.description, category |-> data.category,
   hub |-> data.hub, room |-> data.room, priority |-> data.priority,
   status |-> "new", is_anonymous |-> is_anonymous,
   created_at |-> IF created_at = NULL THEN Now ELSE created_at,
   updated_at |-> Now]

\* trigger update_complaints_updated_at: BEFORE UPDATE, for each row
UpdateUpdatedAtColumn(new) == [new EXCEPT !.updated_at = Now]

NextComplaintId == ComplaintUuid(Cardinality(DOMAIN complaints) + 1)

\* INSERT INTO complaints [RETURNING *] as uid: the error raised, if any.
\* With RETURNING the new row must also pass the SELECT policy.
InsertComplaintError(uid, row, returning) ==
  IF ~ComplaintsInsertCheck(uid, row) THEN RlsViolation
  ELSE IF row.user_id # NULL /\ row.user_id \notin DOMAIN profiles THEN FkViolation
  ELSE IF returning /\ ~ComplaintsSelectUsing(uid, row) THEN RlsViolation
  ELSE NoError

\* rows of complaints an UPDATE ... WHERE id = :id issued by uid applies to:
\* visible under the SELECT policy and admitted by the UPDATE policy
UpdatableComplaints(uid, id) ==
  {c \in DOMAIN complaints :
     c = id /\ ComplaintsSelectUsing(uid, complaints[c]) /\ ComplaintsUpdateUsing(uid, complaints[c])}

\* UPDATE complaints SET status = :s WHERE id = :id
SetStatusForwardOnly(uid, id, s) ==
  LET rank == [new |-> 1, acknowledged |-> 2, in_progress |-> 3, resolved |-> 4, closed |-> 5]
  IN [c \in DOMAIN complaints |->
        IF c \in UpdatableComplaints(uid, id) /\ rank[complaints[c].status] <= rank[s]
          THEN UpdateUpdatedAtColumn([complaints[c] EXCEPT !.status = s])
          ELSE complaints[c]]
\* (a variant that applies only while the stored status is the one on the
\* caller's page)
SetStatusIfShown(uid, id, s) ==
  [c \in DOMAIN complaints |->
     IF /\ c \in UpdatableComplaints(uid, id)
        /\ \A i \in 1..Len(ui[uid].complaints) :
             ui[uid].complaints[i].id = c => ui[uid].complaints[i].status = complaints[c].status
       THEN UpdateUpdatedAtColumn([complaints[c] EXCEPT !.status = s])
       ELSE complaints[c]]
SetStatus(uid, id, s) ==
  [c \in DOMAIN complaints |->
     IF c \in UpdatableComplaints(uid, id)
       THEN UpdateUpdatedAtColumn([complaints[c] EXCEPT !.status = s])
       ELSE complaints[c]]

\* UPDATE complaints SET manager_id = :m WHERE id = :id
\* (manager_id REFERENCES profiles: an unknown id fails the statement)
SetManagerError(uid, id, m) ==
  IF UpdatableComplaints(uid, id) # {} /\ m # NULL /\ m \notin DOMAIN profiles THEN FkViolation ELSE NoError
\* (a variant that writes back the status of the copy on the caller's page)
SetManagerFromCopy(uid, id, m) ==
  [c \in DOMAIN complaints |->
     IF c \in UpdatableComplaints(uid, id) /\ SetManagerError(uid, id, m) = NoError
       THEN LET shown == {ui[uid].complaints[i].status :
                            i \in {j \in 1..Len(ui[uid].complaints) : ui[uid].complaints[j].id = c}}
            IN UpdateUpdatedAtColumn([complaints[c] EXCEPT !.manager_id = m,
                                        !.status = IF shown = {} THEN @ ELSE CHOOSE x \in shown : TRUE])
       ELSE complaints[c]]
SetManager(uid, id, m) ==
  [c \in DOMAIN complaints |->
     IF c \in UpdatableComplaints(uid, id) /\ SetManagerError(uid, id, m) = NoError
       THEN UpdateUpdatedAtColumn([complaints[c] EXCEPT !.manager_id = m])
       ELSE complaints[c]]

\* SELECT * FROM complaints ORDER BY created_at DESC as uid: the visible ids,
\* newest first (rows of equal created_at: the later insert first)
RECURSIVE NewestFirst(_, _)
NewestFirst(tbl, ids) ==
  IF ids = {} THEN <<>>
  ELSE LET m == CHOOSE x \in ids : \A y \in ids :
                  \/ tbl[y].created_at < tbl[x].created_at
                  \/ (tbl[y].created_at = tbl[x].created_at /\ y <= x)
       IN <<m>> \o NewestFirst(tbl, ids \ {m})
VisibleComplaintsIn(tbl, uid) == {c \in DOMAIN tbl : ComplaintsSelectUsing(uid, tbl[c])}
SelectComplaintsIn(tbl, uid) ==
  LET ids == NewestFirst(tbl, VisibleComplaintsIn(tbl, uid))
  IN [i \in 1..Len(ids) |->
       [id |-> ids[i], user_id |-> tbl[ids[i]].user_id, manager_id |-> tbl[ids[i]].manager_id,
        title |-> tbl[ids[i]].title, description |-> tbl[ids[i]].description,
        category |-> tbl[ids[i]].category, hub |-> tbl[ids[i]].hub, room |-> tbl[ids[i]].room,
        priority |-> tbl[ids[i]].priority,
        status |-> tbl[ids[i]].status, is_anonymous |-> tbl[ids[i]].is_anonymous,
        created_at |-> tbl[ids[i]].created_at, updated_at |-> tbl[ids[i]].updated_at]]
SelectComplaints(uid) == SelectComplaintsIn(complaints, uid)

\* supabase.from('complaints').insert(payload) sent by any signed-up principal
ApiInsertComplaint(caller, user_id, is_anonymous, created_at) ==
  /\ Tick
  /\ caller \in DOMAIN profiles
  /\ Cardinality(DOMAIN complaints) < MaxComplaints
  /\ LET row == ComplaintRow(user_id, is_anonymous, BaseData, created_at)
         err == InsertComplaintError(caller, row, FALSE)
     IN /\ complaints' = IF err = NoError THEN (NextComplaintId :> row) @@ complaints ELSE complaints
        /\ last' = Request("insertComplaint", caller, NextComplaintId, err)
  /\ UNCHANGED <<profiles, messages, attachments, objects, now, ui>>

\* supabase.from('complaints').update({status}).eq('id', id) sent by any principal
ApiUpdateStatus(caller, id, s) ==
  /\ Tick
  /\ caller \in DOMAIN profiles
  /\ complaints' = SetStatus(caller, id, s)
  /\ last' = [Request("updateStatus", caller, id, NoError) EXCEPT !.before = StatusOf(id), !.arg = s]
  /\ UNCHANGED <<profiles, messages, attachments, objects, now, ui>>

\* supabase.from('complaints').update({manager_id}).eq('id', id) sent by any principal
ApiAssign(caller, id, m) ==
  /\ Tick
  /\ caller \in DOMAIN profiles
  /\ complaints' = SetManager(caller, id, m)
  /\ last' = Request("assign", caller, id, SetManagerError(caller, id, m))
  /\ UNCHANGED <<profiles, messages, attachments, objects, now, ui>>

\* supabase.from('complaints').delete().eq('id', id) sent by any principal;
\* messages and attachments reference complaints ON DELETE CASCADE
ApiDeleteComplaint(caller, id) ==
  /\ Tick
  /\ caller \in DOMAIN profiles
  /\ id \in DOMAIN complaints
  /\ IF ComplaintsSelectUsing(caller, complaints[id]) /\ ComplaintsDeleteUsing(caller, complaints[id])
       THEN /\ complaints' = [c \in DOMAIN complaints \ {id} |-> complaints[c]]
            /\ messages' = SelectSeq(messages, LAMBDA m : m.complaint_id # id)
            /\ attachments' = {a \in attachments : a.complaint_id # id}
       ELSE UNCHANGED <<complaints, messages, attachments>>
  /\ last' = Request("deleteComplaint", caller, id, NoError)
  /\ UNCHANGED <<profiles, objects, now, ui>>

\* ---- deletions by the operator ----
\* No policy lets a principal delete a complaint or a profile; the operator
\* can, in the Cloud Dashboard (service role).  The foreign keys say what
\* happens to the rows that refer to the deleted one.

\* complaint_id ... REFERENCES complaints(id) ON DELETE CASCADE
CascadeMessagesKeep(tbl, id) == tbl
CascadeMessages(tbl, id) == SelectSeq(tbl, LAMBDA m : m.complaint_id # id)
CascadeAttachments(tbl, id) == {a \in tbl : a.complaint_id # id}

\* ... REFERENCES profiles(id) ON DELETE SET NULL
SetNullRef(ref, id) == IF ref = id THEN NULL ELSE ref
SetNullComplaint(row, id) ==
  [row EXCEPT !.user_id = SetNullRef(@, id), !.manager_id = SetNullRef(@, id)]
SetNullMessage(m, id) == [m EXCEPT !.sender_id = SetNullRef(@, id)]
SetNullAttachment(a, id) == [a EXCEPT !.uploader_id = SetNullRef(@, id)]

\* DELETE FROM complaints WHERE id = :id
DeleteComplaint(id) ==
  /\ Tick
  /\ id \in DOMAIN complaints
  /\ complaints' = [c \in DOMAIN complaints \ {id} |-> complaints[c]]
  /\ messages' = CascadeMessages(messages, id)
  /\ attachments' = CascadeAttachments(attachments, id)
  /\ last' = Request("cloudDashboard.deleteComplaint", NULL, id, NoError)
  /\ UNCHANGED <<profiles, objects, now, ui>>

\* DELETE FROM auth.users WHERE id = :id (profiles.id REFERENCES auth.users
\* ON DELETE CASCADE), or DELETE FROM profiles WHERE id = :id
DeleteProfile(id) ==
  /\ Tick
  /\ id \in DOMAIN profiles
  /\ profiles' = [u \in DOMAIN profiles \ {id} |-> profiles[u]]
  /\ complaints' = [c \in DOMAIN complaints |-> SetNullComplaint(complaints[c], id)]
  /\ messages' = [i \in 1..Len(messages) |-> SetNullMessage(messages[i], id)]
  /\ attachments' = {SetNullAttachment(a, id) : a \in attachments}
  /\ last' = Request("cloudDashboard.deleteProfile", NULL, id, NoError)
  /\ UNCHANGED <<objects, now, ui>>

\* ---- messages ----

InsertMessageError(uid, m) ==
  IF ~MessagesInsertCheck(uid, m) THEN RlsViolation
  ELSE IF m.complaint_id \notin DOMAIN complaints THEN FkViolation
  ELSE IF m.sender_id # NULL /\ m.sender_id \notin DOMAIN profiles THEN FkViolation
  ELSE NoError

\* the row INSERT INTO messages stores (created_at = NULL: DEFAULT NOW())
MessageRow(complaint_id, sender_id, body, created_at) ==
  [complaint_id |-> complaint_id, sender_id |-> sender_id, body |-> body,
   created_at |-> IF created_at = NULL THEN Now ELSE created_at]

\* ORDER BY created_at ASC (rows of equal created_at keep table order)
RECURSIVE InsertByCreatedAt(_, _)
InsertByCreatedAt(sorted, m) ==
  IF sorted = <<>> THEN <<m>>
  ELSE IF sorted[Len(sorted)].created_at <= m.created_at THEN Append(sorted, m)
  ELSE Append(InsertByCreatedAt(SubSeq(sorted, 1, Len(sorted) - 1), m), sorted[Len(sorted)])
RECURSIVE OrderByCreatedAt(_)
OrderByCreatedAtKeep(seq) == seq
OrderByCreatedAt(seq) ==
  IF seq = <<>> THEN <<>>
  ELSE InsertByCreatedAt(OrderByCreatedAt(SubSeq(seq, 1, Len(seq) - 1)), seq[Len(seq)])

\* SELECT * FROM messages WHERE complaint_id = :id ORDER BY created_at as uid
SelectMessagesIn(tbl, uid, id) ==
  OrderByCreatedAt(SelectSeq(tbl, LAMBDA m : m.complaint_id = id /\ MessagesSelectUsing(uid, m)))

\* supabase.from('messages').insert(payload) sent by any signed-up principal
ApiInsertMessage(caller, id, sender, created_at) ==
  /\ Tick
  /\ caller \in DOMAIN profiles
  /\ Len(messages) < MaxMessages
  /\ LET m == MessageRow(id, sender, Str(0, 2, 0), created_at)
         err == InsertMessageError(caller, m)
     IN /\ messages' = IF err = NoError THEN Append(messages, m) ELSE messages
        /\ last' = Request("insertMessage", caller, id, err)
  /\ UNCHANGED <<profiles, complaints, attachments, objects, now, ui>>

\* supabase.from('messages').update({body}).eq('id', <id of the i-th row>) sent
\* by any signed-up principal: applies to the rows the policies let through
ApiUpdateMessage(caller, i, body) ==
  /\ Tick
  /\ caller \in DOMAIN profiles
  /\ i \in 1..Len(messages)
  /\ messages' = IF MessagesSelectUsing(caller, messages[i]) /\ MessagesUpdateUsing(caller, messages[i])
                   THEN [messages EXCEPT ![i].body = body]
                   ELSE messages
  /\ last' = Request("updateMessage", caller, messages[i].complaint_id, NoError)
  /\ UNCHANGED <<profiles, complaints, attachments, objects, now, ui>>

\* supabase.from('messages').delete().eq('id', <id of the i-th row>)
ApiDeleteMessage(caller, i) ==
  /\ Tick
  /\ caller \in DOMAIN profiles
  /\ i \in 1..Len(messages)
  /\ messages' = IF MessagesSelectUsing(caller, messages[i]) /\ MessagesDeleteUsing(caller, messages[i])
                   THEN SubSeq(messages, 1, i - 1) \o SubSeq(messages, i + 1, Len(messages))
                   ELSE messages
  /\ last' = Request("deleteMessage", caller, messages[i].complaint_id, NoError)
  /\ UNCHANGED <<profiles, complaints, attachments, objects, now, ui>>

\* ---- attachment bucket ----

\* storage.from('complaint-attachments').download(name) as uid
DownloadError(uid, name) ==
  IF \E obj \in objects : obj.name = name /\ ObjectsSelectUsing(uid, obj) THEN NoError ELSE ObjectNotFound

ApiDownload(caller, name) ==
  /\ Tick
  /\ caller \in DOMAIN profiles
  /\ \E obj \in objects : obj.name = name
  /\ last' = Request("download", caller, name[1], DownloadError(caller, name))
  /\ UNCHANGED <<store, now, ui>>


\* ---- Dashboard (student view) ----

\* Dashboard.fetchComplaints in the browser of u
DashboardFetchComplaints(u) ==
  /\ Tick
  /\ u \in DOMAIN profiles
  /\ last' = Handled("Dashboard.fetchComplaints", u, NULL, NoError, "none", "none", SelectComplaints(u))
  /\ UNCHANGED <<store, now, ui>>

\* ---- ManagerDashboard ----

\* data.role !== 'manager' && data.role !== 'admin'
AccessDeniedNever(role) == FALSE
AccessDenied(role) == role # "manager" /\ role # "admin"

\* what the lookup of the caller's profile may return: the row, or an error
\* (the request did not get through)
LookupErrors == {NoError, FetchFailed}

\* ManagerDashboard mounts in the browser of u and runs checkManagerAccess
CheckManagerAccess(u, lookupError) ==
  /\ Tick
  /\ u \in DOMAIN profiles
  /\ IF lookupError # NoError
       THEN \* if (error) throw error: the catch block notifies and navigates
            /\ ui' = [ui EXCEPT ![u].profile = "none"]
            /\ last' = Handled("checkManagerAccess", u, u, lookupError,
                               "Failed to verify access", "/dashboard", <<>>)
     ELSE IF AccessDenied(profiles[u].role)
       THEN /\ ui' = [ui EXCEPT ![u].profile = "none"]
            /\ last' = Handled("checkManagerAccess", u, u, NoError,
                               "Access denied. Manager or admin role required.", "/dashboard", <<>>)
       ELSE /\ ui' = [ui EXCEPT ![u].profile = profiles[u].role]
            /\ last' = Handled("checkManagerAccess", u, u, NoError, "none", "none", <<>>)
  /\ UNCHANGED <<store, now>>

\* ManagerDashboard.fetchComplaints, run by the effect on [profile]
ManagerFetchComplaints(u) ==
  /\ Tick
  /\ u \in DOMAIN profiles
  /\ ui[u].profile # "none"
  /\ last' = Handled("ManagerDashboard.fetchComplaints", u, NULL, NoError, "none", "none", SelectComplaints(u))
  /\ UNCHANGED <<store, now, ui>>

\* ManagerDashboard.updateComplaintStatus from the status Select of a listed
\* complaint; on success it notifies and fetches the list again
UpdateComplaintStatus(u, complaintId, newStatus) ==
  /\ Tick
  /\ u \in DOMAIN profiles
  /\ ui[u].profile # "none"
  /\ complaintId \in DOMAIN complaints
  /\ complaints' = SetStatus(u, complaintId, newStatus)
  /\ last' = [Handled("updateComplaintStatus", u, complaintId, NoError,
                      "Status updated successfully", "none", SelectComplaintsIn(complaints', u))
                EXCEPT !.before = StatusOf(complaintId), !.arg = newStatus]
  /\ UNCHANGED <<profiles, messages, attachments, objects, now, ui>>

\* ManagerDashboard.assignComplaint from the assignment dialog: one of the
\* managers fetchManagers listed, or null to remove the assignment
AssignComplaint(u, complaintId, managerId) ==
  /\ Tick
  /\ u \in DOMAIN profiles
  /\ ui[u].profile # "none"
  /\ complaintId \in DOMAIN complaints
  /\ managerId \in {m \in DOMAIN profiles : profiles[m].role \in StaffRoles} \cup {NULL}
  /\ complaints' = SetManager(u, complaintId, managerId)
  /\ last' = IF SetManagerError(u, complaintId, managerId) = NoError
               THEN Handled("assignComplaint", u, complaintId, NoError,
                            IF managerId # NULL THEN "Complaint assigned successfully" ELSE "Assignment removed",
                            "none", SelectComplaintsIn(complaints', u))
               ELSE Handled("assignComplaint", u, complaintId, FkViolation,
                            "Failed to assign complaint", "none", <<>>)
  /\ UNCHANGED <<profiles, messages, attachments, objects, now, ui>>

\* ---- ManagerDashboard: the list on the page ----

\* text of a title, a hub or the search box where its characters matter: a
\* sequence of one-character strings
\* String.prototype.toLowerCase
LowerChar(ch) ==
  CASE ch = "W" -> "w" [] ch = "F" -> "f" [] ch = "L" -> "l" [] ch = "K" -> "k" [] OTHER -> ch
ToLowerCaseKeep(text) == text
ToLowerCase(text) == [i \in DOMAIN text |-> LowerChar(text[i])]
\* String.prototype.includes
Includes(text, part) ==
  \E i \in 0..(Len(text) - Len(part)) : SubSeq(text, i + 1, i + Len(part)) = part

\* applyFilters: the filters applied one after the other to a copy of
\* complaints (an empty searchQuery is falsy)
ApplyFilters(list, searchQuery, statusFilter, priorityFilter, hubFilter) ==
  LET searched == IF searchQuery # <<>>
                    THEN SelectSeq(list, LAMBDA c :
                           \/ Includes(ToLowerCase(c.title), ToLowerCase(searchQuery))
                           \/ Includes(ToLowerCase(c.hub), ToLowerCase(searchQuery)))
                    ELSE list
      byStatus == IF statusFilter # "all"
                    THEN SelectSeq(searched, LAMBDA c : c.status = statusFilter) ELSE searched
      byPriority == IF priorityFilter # "all"
                      THEN SelectSeq(byStatus, LAMBDA c : c.priority = priorityFilter) ELSE byStatus
  IN IF hubFilter # AllHubs THEN SelectSeq(byPriority, LAMBDA c : c.hub = hubFilter) ELSE byPriority

\* the effect on [complaints, searchQuery, statusFilter, priorityFilter,
\* hubFilter]: applyFilters runs on the state just set
FiltersEffect(page) ==
  [page EXCEPT !.filteredComplaints =
     ApplyFilters(page.complaints, page.searchQuery, page.statusFilter, page.priorityFilter, page.hubFilter)]

\* the counts fetchComplaints derives from the rows it received
StatsOf(data) ==
  [total |-> Len(data),
   new |-> Len(SelectSeq(data, LAMBDA c : c.status = "new")),
   inProgress |-> Len(SelectSeq(data, LAMBDA c : c.status = "in_progress" \/ c.status = "acknowledged")),
   resolved |-> Len(SelectSeq(data, LAMBDA c : c.status = "resolved" \/ c.status = "closed"))]

\* the search box, and the three Selects above the list
SetSearchQuery(u, value) ==
  /\ Tick
  /\ ui[u].profile # "none"
  /\ ui[u].searchQuery # value
  /\ ui' = [ui EXCEPT ![u] = FiltersEffect([@ EXCEPT !.searchQuery = value])]
  /\ last' = Handled("setSearchQuery", u, NULL, Returned, "none", "none", <<>>)
  /\ UNCHANGED <<store, now>>

SetStatusFilter(u, value) ==
  /\ Tick
  /\ ui[u].profile # "none"
  /\ ui[u].statusFilter # value
  /\ ui' = [ui EXCEPT ![u] = FiltersEffect([@ EXCEPT !.statusFilter = value])]
  /\ last' = Handled("setStatusFilter", u, NULL, Returned, "none", "none", <<>>)
  /\ UNCHANGED <<store, now>>

SetPriorityFilter(u, value) ==
  /\ Tick
  /\ ui[u].profile # "none"
  /\ ui[u].priorityFilter # value
  /\ ui' = [ui EXCEPT ![u] = FiltersEffect([@ EXCEPT !.priorityFilter = value])]
  /\ last' = Handled("setPriorityFilter", u, NULL, Returned, "none", "none", <<>>)
  /\ UNCHANGED <<store, now>>

\* the hub Select offers 'all' and the hubs of the complaints on the page
UniqueHubs(list) == {list[i].hub : i \in 1..Len(list)}
SetHubFilter(u, value) ==
  /\ Tick
  /\ ui[u].profile # "none"
  /\ ui[u].hubFilter # value
  /\ value \in {AllHubs} \cup UniqueHubs(ui[u].complaints)
  /\ ui' = [ui EXCEPT ![u] = FiltersEffect([@ EXCEPT !.hubFilter = value])]
  /\ last' = Handled("setHubFilter", u, NULL, Returned, "none", "none", <<>>)
  /\ UNCHANGED <<store, now>>

\* ---- ManagerDashboard: requests in flight ----
\* updateComplaintStatus and assignComplaint await their update and then call
\* fetchComplaints without awaiting it: the handler is over while the fetch
\* is on its way.  A fetch is one request to the store and one response back
\* to the page; the requests and responses of one page travel on their own,
\* so the store may answer them, and the page receive the answers, in an
\* order other than the one they were sent in.

\* id of the complaints a page lists
ShownIds(u) == {ui[u].complaints[i].id : i \in 1..Len(ui[u].complaints)}

\* updateComplaintStatus from the status Select of a listed complaint, up to
\* the call of fetchComplaints
UpdateComplaintStatusCall(u, complaintId, newStatus) ==
  /\ Tick
  /\ u \in DOMAIN profiles
  /\ ui[u].profile # "none"
  /\ complaintId \in ShownIds(u)
  /\ complaints' = SetStatus(u, complaintId, newStatus)
  /\ ui' = [ui EXCEPT ![u].requests = @ + 1]
  /\ last' = [Handled("updateComplaintStatus", u, complaintId, NoError,
                      "Status updated successfully", "none", <<>>)
                EXCEPT !.before = StatusOf(complaintId), !.arg = newStatus]
  /\ UNCHANGED <<profiles, messages, attachments, objects, now>>

\* assignComplaint from the dialog of a listed complaint, up to the call of
\* fetchComplaints
AssignComplaintCall(u, complaintId, managerId) ==
  /\ Tick
  /\ u \in DOMAIN profiles
  /\ ui[u].profile # "none"
  /\ complaintId \in ShownIds(u)
  /\ managerId \in {m \in DOMAIN profiles : profiles[m].role \in StaffRoles} \cup {NULL}
  /\ complaints' = SetManager(u, complaintId, managerId)
  /\ IF SetManagerError(u, complaintId, managerId) = NoError
       THEN /\ ui' = [ui EXCEPT ![u].requests = @ + 1]
            /\ last' = [Handled("assignComplaint", u, complaintId, NoError,
                                IF managerId # NULL THEN "Complaint assigned successfully"
                                                    ELSE "Assignment removed",
                                "none", <<>>)
                          EXCEPT !.before = StatusOf(complaintId), !.arg = managerId]
       ELSE /\ ui' = ui
            /\ last' = [Handled("assignComplaint", u, complaintId, FkViolation,
                                "Failed to assign complaint", "none", <<>>)
                          EXCEPT !.before = StatusOf(complaintId), !.arg = managerId]
  /\ UNCHANGED <<profiles, messages, attachments, objects, now>>

\* the store answers one of the fetchComplaints requests of u's page
FetchComplaintsServe(u) ==
  /\ ui[u].requests > 0
  /\ ui' = [ui EXCEPT ![u].requests = @ - 1, ![u].responses = @ \cup {SelectComplaints(u)}]
  /\ UNCHANGED <<store, now, last, ops>>

\* a response reaches the page: setComplaints(data || []), setStats, and the
\* effect on [complaints]
FetchComplaintsReturn(u, data) ==
  /\ data \in ui[u].responses
  /\ ui' = [ui EXCEPT ![u] = FiltersEffect([@ EXCEPT !.complaints = data, !.stats = StatsOf(data),
                                                     !.responses = @ \ {data}])]
  /\ UNCHANGED <<store, now, last, ops>>

\* ---- ComplaintDetail ----

\* (a variant that tells a filtered row from an absent one)
FetchDetailsOutcomeLeaky(tblC, tblM, uid, id) ==
  LET rows == SelectSeq(SelectComplaintsIn(tblC, uid), LAMBDA c : c.id = id)
  IN IF Len(rows) # 1
       THEN [error |-> IF id \in DOMAIN tblC THEN RlsViolation ELSE NoRows,
             toast |-> "Failed to load complaint details", route |-> "/dashboard",
             complaint |-> <<>>, messages |-> <<>>]
       ELSE [error |-> NoError, toast |-> "none", route |-> "none", complaint |-> rows,
             messages |-> SelectMessagesIn(tblM, uid, id)]

\* ComplaintDetail.fetchComplaintDetails for caller uid and route parameter
\* id, on the given tables: the error, what is shown and where it navigates
FetchDetailsOutcome(tblC, tblM, uid, id) ==
  LET rows == SelectSeq(SelectComplaintsIn(tblC, uid), LAMBDA c : c.id = id)
  IN IF Len(rows) # 1
       THEN \* .single() fails; the catch block notifies and navigates
            [error |-> NoRows, toast |-> "Failed to load complaint details", route |-> "/dashboard",
             complaint |-> <<>>, messages |-> <<>>]
       ELSE [error |-> NoError, toast |-> "none", route |-> "none", complaint |-> rows,
             messages |-> SelectMessagesIn(tblM, uid, id)]

\* ComplaintDetail mounts for /complaint/:id in the browser of u
FetchComplaintDetails(u, id) ==
  /\ Tick
  /\ u \in DOMAIN profiles
  /\ LET out == FetchDetailsOutcome(complaints, messages, u, id)
     IN /\ ui' = [ui EXCEPT ![u].complaint = IF out.error = NoError THEN id ELSE NULL]
        /\ last' = Handled("fetchComplaintDetails", u, id, out.error, out.toast, out.route,
                           out.complaint \o out.messages)
  /\ UNCHANGED <<store, now>>

\* what the message box may hold: nothing, blanks, a padded text
NewMessages == {Str(0, 0, 0), Str(2, 0, 0), Str(1, 3, 1)}

\* ComplaintDetail.sendMessage, on the page of a loaded complaint, with
\* newMessage in the message box
SendMessage(u, newMessage) ==
  /\ Tick
  /\ u \in DOMAIN profiles
  /\ ui[u].complaint # NULL
  /\ StrLen(Trim(newMessage)) # 0 => Len(messages) < MaxMessages
  /\ LET m == MessageRow(ui[u].complaint, u, Trim(newMessage), NULL)
         err == InsertMessageError(u, m)
     IN IF StrLen(Trim(newMessage)) = 0
          THEN \* !newMessage.trim(): return
               /\ messages' = messages
               /\ ui' = ui
               /\ last' = [Handled("sendMessage", u, m.complaint_id, Returned, "none", "none", <<>>)
                             EXCEPT !.arg = newMessage]
          ELSE IF err # NoError
          THEN /\ messages' = messages
               /\ ui' = ui
               /\ last' = [Handled("sendMessage", u, m.complaint_id, err, "Failed to send message", "none", <<>>)
                             EXCEPT !.arg = newMessage]
          ELSE /\ messages' = Append(messages, m)
               /\ LET out == FetchDetailsOutcome(complaints, messages', u, m.complaint_id)
                  IN /\ ui' = [ui EXCEPT ![u].complaint = IF out.error = NoError THEN @ ELSE NULL]
                     /\ last' = [Handled("sendMessage", u, m.complaint_id, NoError, "Message sent",
                                         out.route, out.complaint \o out.messages)
                                   EXCEPT !.arg = newMessage]
  /\ UNCHANGED <<profiles, complaints, attachments, objects, now>>

\* ---- SubmitComplaint ----

\* a File of the file dialog: file.name.split('.').pop() and file.size
File(ext, size) == [ext |-> ext, size |-> size]
\* the selections explored next to the other operations
FileLists == UNION {[1..n -> {File("png", 1)}] : n \in 1..MaxFiles}

\* handleFileChange: files over the size limit are dropped with a
\* notification each, the rest is appended and the list cut to five.
\* (the input is disabled once five files are pending)
ValidFilesAll(selectedFiles) == selectedFiles
ValidFiles(selectedFiles) == SelectSeq(selectedFiles, LAMBDA file : ~(file.size > MaxFileSize))
\* .slice(0, 5)
SliceAll(all) == all
Slice(all) == SubSeq(all, 1, IF Len(all) < MaxPendingFiles THEN Len(all) ELSE MaxPendingFiles)
HandleFileChange(u, selectedFiles) ==
  /\ Tick
  /\ u \in DOMAIN profiles
  /\ Len(ui[u].files) < MaxPendingFiles
  /\ LET validFiles == ValidFiles(selectedFiles)
     IN /\ ui' = [ui EXCEPT ![u].files = Slice(@ \o validFiles)]
        /\ last' = [Handled("handleFileChange", u, NULL, Returned,
                            IF Len(validFiles) < Len(selectedFiles)
                              THEN "is too large. Maximum size is 10MB." ELSE "none",
                            "none", <<>>)
                      EXCEPT !.arg = selectedFiles]
  /\ UNCHANGED <<store, now>>

\* removeFile(index) from the button next to a pending file
RemoveFile(u, index) ==
  /\ Tick
  /\ u \in DOMAIN profiles
  /\ index \in 1..Len(ui[u].files)
  /\ ui' = [ui EXCEPT ![u].files = SubSeq(@, 1, index - 1) \o SubSeq(@, index + 1, Len(@))]
  /\ last' = Handled("removeFile", u, NULL, Returned, "none", "none", <<>>)
  /\ UNCHANGED <<store, now>>

\* ---- complaintSchema (zod) ----
\* each check gives the messages of the issues it raises, in order

\* z.string().trim().min(min, minMsg).max(max, maxMsg)
ZString(v, min, minMsg, max, maxMsg) ==
  IF v = Undefined THEN <<"Required">>
  ELSE IF v = NullStr THEN <<"Expected string, received null">>
  ELSE IF StrLen(Trim(v)) < min THEN <<minMsg>>
  ELSE IF StrLen(Trim(v)) > max THEN <<maxMsg>>
  ELSE <<>>
\* .optional(): undefined passes, anything else goes to the inner check
ZOptional(v, issues) == IF v = Undefined THEN <<>> ELSE issues
\* z.enum([...])
ZEnum(v, values) == IF v \in values THEN <<>> ELSE <<"Invalid enum value">>

ComplaintSchemaIssuesLax(data) == <<>>
ComplaintSchemaIssues(data) ==
  ZString(data.title, TitleMin, "Title must be at least 5 characters", TitleMax, "Title too long")
  \o ZString(data.description, DescriptionMin, "Description must be at least 20 characters",
             DescriptionMax, "Description too long")
  \o ZEnum(data.category, Categories)
  \o ZString(data.hub, HubMin, "Hub is required", HubMax, "Hub name too long")
  \o ZOptional(data.room, ZString(data.room, 0, "none", RoomMax, "Room name too long"))
  \o ZEnum(data.priority, Priorities)

\* the object handleSubmit builds from the FormData of the form
FormDataOf(form) == [form EXCEPT !.room = OrNull(form.room)]

\* `${complaint.id}/${Date.now()}.${fileExt}` as path segments
ObjectName(complaintId, ts, fileExt) == <<complaintId, <<ts, fileExt>>>>

\* storage.from(bucket).upload(name, file) as uid, upsert off
UploadError(objs, uid, obj) ==
  IF ~ObjectsInsertCheck(uid, obj) THEN RlsViolation
  ELSE IF \E o \in objs : o.name = obj.name THEN Duplicate
  ELSE NoError

\* INSERT INTO attachments as uid
InsertAttachmentError(uid, att) ==
  IF ~AttachmentsInsertCheck(uid, att) THEN RlsViolation ELSE NoError

\* the upload loop of handleSubmit over files[i..], file k named at clock
\* tss[k]; calls: the upload requests sent and the error each one returned
RECURSIVE UploadLoop(_, _, _, _, _, _, _)
UploadLoopStop(files, tss, i, complaintId, uid, uploader, acc) ==
  IF i > Len(files) THEN acc
  ELSE LET fileName == ObjectName(complaintId, tss[i], files[i].ext)
           obj == [bucket_id |-> Bucket, name |-> fileName]
           att == [complaint_id |-> complaintId, uploader_id |-> uploader, file_path |-> fileName,
                   file_size |-> files[i].size]
           uploadError == UploadError(acc.objects, uid, obj)
           call == [name |-> fileName, size |-> files[i].size, error |-> uploadError]
       IN IF uploadError = NoError
            THEN UploadLoop(files, tss, i + 1, complaintId, uid, uploader,
                   [objects |-> acc.objects \cup {obj},
                    attachments |-> IF InsertAttachmentError(uid, att) = NoError
                                      THEN acc.attachments \cup {att} ELSE acc.attachments,
                    calls |-> Append(acc.calls, call)])
            ELSE [acc EXCEPT !.calls = Append(acc.calls, call)]
UploadLoop(files, tss, i, complaintId, uid, uploader, acc) ==
  IF i > Len(files) THEN acc
  ELSE LET fileName == ObjectName(complaintId, tss[i], files[i].ext)
           obj == [bucket_id |-> Bucket, name |-> fileName]
           att == [complaint_id |-> complaintId, uploader_id |-> uploader, file_path |-> fileName,
                   file_size |-> files[i].size]
           uploadError == UploadError(acc.objects, uid, obj)
           call == [name |-> fileName, size |-> files[i].size, error |-> uploadError]
       IN IF uploadError = NoError
            THEN UploadLoop(files, tss, i + 1, complaintId, uid, uploader,
                   [objects |-> acc.objects \cup {obj},
                    attachments |-> IF InsertAttachmentError(uid, att) = NoError
                                      THEN acc.attachments \cup {att} ELSE acc.attachments,
                    calls |-> Append(acc.calls, call)])
            ELSE UploadLoop(files, tss, i + 1, complaintId, uid, uploader,
                   [acc EXCEPT !.calls = Append(acc.calls, call)])

\* clock values the loop can read: from now on, never going back
ClockReads(n) ==
  {tss \in [1..n -> now..MaxClock] : \A i \in 1..n : \A j \in 1..n : i <= j => tss[i] <= tss[j]}

\* user_id / uploader_id of the payloads built by handleSubmit for user u
SubmitUserId(u, isAnonymous) == IF isAnonymous THEN NULL ELSE u

\* SubmitComplaint.handleSubmit in the browser of u: the form holds `form`,
\* the switch isAnonymous and the pending files
HandleSubmit(u, isAnonymous, form) ==
  /\ Tick
  /\ u \in DOMAIN profiles
  /\ Cardinality(DOMAIN complaints) < MaxComplaints
  /\ \E tss \in ClockReads(Len(ui[u].files)) :
       LET files == ui[u].files
           data == FormDataOf(form)
           issues == ComplaintSchemaIssues(data)
           row == ComplaintRow(SubmitUserId(u, isAnonymous), isAnonymous, data, NULL)
           err == InsertComplaintError(u, row, TRUE)
           id == NextComplaintId
           done == UploadLoop(files, tss, 1, id, u, SubmitUserId(u, isAnonymous),
                              [objects |-> objects, attachments |-> attachments, calls |-> <<>>])
       IN IF issues # <<>>
            THEN \* complaintSchema.parse throws a ZodError
                 /\ last' = [Handled("handleSubmit", u, id, ZodError, issues[1], "none", <<>>)
                               EXCEPT !.arg = form, !.anonymous = isAnonymous]
                 /\ UNCHANGED <<complaints, attachments, objects, now, ui>>
          ELSE IF err # NoError
            THEN /\ last' = [Handled("handleSubmit", u, id, err, "new row violates row-level security policy",
                                       "none", <<>>)
                               EXCEPT !.arg = form, !.anonymous = isAnonymous]
                 /\ UNCHANGED <<complaints, attachments, objects, now, ui>>
            ELSE /\ complaints' = (id :> row) @@ complaints
                 /\ objects' = done.objects
                 /\ attachments' = done.attachments
                 /\ now' = IF Len(files) > 0 THEN tss[Len(files)] ELSE now
                 \* navigate('/dashboard') unmounts the form
                 /\ ui' = [ui EXCEPT ![u].files = <<>>]
                 /\ last' = [Handled("handleSubmit", u, id, NoError, "Complaint submitted successfully!",
                                     "/dashboard", done.calls)
                               EXCEPT !.arg = form, !.anonymous = isAnonymous]
  /\ UNCHANGED <<profiles, messages>>

\* ---- the system ----

Next ==
  \/ \E u \in Users, metaRole \in MetaRoles : SignUp(u, metaRole)
  \/ \E u \in Users, r \in Roles : UpdateUserRole(u, r)
  \/ \E caller \in Users, id \in Users, r \in Roles, v \in BOOLEAN : ApiUpdateProfile(caller, id, r, v)
  \/ \E caller \in Users, uid \in Users \cup {NULL}, anon \in BOOLEAN, created_at \in {NULL, FutureTime} :
       ApiInsertComplaint(caller, uid, anon, created_at)
  \/ \E caller \in Users, id \in ComplaintIds, s \in Statuses : ApiUpdateStatus(caller, id, s)
  \/ \E caller \in Users, id \in ComplaintIds, m \in Users \cup {NULL} : ApiAssign(caller, id, m)
  \/ \E caller \in Users, id \in ComplaintIds, sender \in Users \cup {NULL}, created_at \in {NULL, PastTime} :
       ApiInsertMessage(caller, id, sender, created_at)
  \/ \E caller \in Users, i \in 1..MaxMessages : ApiUpdateMessage(caller, i, Str(0, 6, 0))
  \/ \E caller \in Users, i \in 1..MaxMessages : ApiDeleteMessage(caller, i)
  \/ \E caller \in Users, name \in {obj.name : obj \in objects} : ApiDownload(caller, name)
  \/ \E u \in Users : DashboardFetchComplaints(u)
  \/ \E u \in Users, lookupError \in LookupErrors : CheckManagerAccess(u, lookupError)
  \/ \E u \in Users : ManagerFetchComplaints(u)
  \/ \E u \in Users, id \in ComplaintIds, s \in Statuses : UpdateComplaintStatus(u, id, s)
  \/ \E u \in Users, id \in ComplaintIds, m \in Users \cup {NULL} : AssignComplaint(u, id, m)
  \/ \E u \in Users, id \in ComplaintIds : FetchComplaintDetails(u, id)
  \/ \E u \in Users, newMessage \in NewMessages : SendMessage(u, newMessage)
  \/ \E u \in Users, selectedFiles \in FileLists : HandleFileChange(u, selectedFiles)
  \/ \E u \in Users, index \in 1..MaxPendingFiles : RemoveFile(u, index)
  \/ \E u \in Users, anon \in BOOLEAN : HandleSubmit(u, anon, BaseData)

Spec == Init /\ [][Next]_vars

\* ---- the submission form on its own ----
\* One signed-up student on the SubmitComplaint page, with the field values
\* and the file selections around the limits of the form.

FormUser == 1
FormFiles == {File("png", MaxFileSize), File("png", MaxFileSize + 1), File("pdf", 1)}
FormSelections == UNION {[1..n -> FormFiles] : n \in 1..MaxSelect}
FormTitles ==
  {Str(0, TitleMin - 1, 0), Str(0, TitleMin, 0), Str(1, TitleMin - 2, 1),
   Str(1, TitleMax, 1), Str(0, TitleMax + 1, 0)}
FormDescriptions ==
  {Str(0, DescriptionMin - 1, 0), Str(0, DescriptionMin, 0), Str(1, DescriptionMin - 2, 1),
   Str(1, DescriptionMax, 1), Str(0, DescriptionMax + 1, 0)}
FormValues ==
  {[BaseData EXCEPT !.title = t] : t \in FormTitles}
  \cup {[BaseData EXCEPT !.description = d] : d \in FormDescriptions}
  \cup {[BaseData EXCEPT !.room = r] : r \in {Str(0, 0, 0), Str(0, RoomMax + 1, 0)}}
  \cup {[BaseData EXCEPT !.hub = Str(0, HubMin - 1, 0)],
        [BaseData EXCEPT !.category = ""],
        [BaseData EXCEPT !.priority = ""]}

FormInit ==
  /\ profiles = (FormUser :> [role |-> "student", is_verified |-> FALSE])
  /\ complaints = <<>>
  /\ messages = <<>>
  /\ attachments = {}
  /\ objects = {}
  /\ now = 0
  /\ ui = [u \in Users |-> NoPage]
  /\ last = Request("none", NULL, NULL, NoError)
  /\ ops = 0

FormNext ==
  \/ \E selectedFiles \in FormSelections : HandleFileChange(FormUser, selectedFiles)
  \/ \E index \in 1..MaxPendingFiles : RemoveFile(FormUser, index)
  \/ \E anon \in BOOLEAN, form \in FormValues : HandleSubmit(FormUser, anon, form)

FormSpec == FormInit /\ [][FormNext]_vars

\* ---- the thread of one complaint on its own ----
\* A student and a manager have signed up, the student has submitted a
\* complaint and both have its page open; time is counted from there.

ThreadComplaint == ComplaintUuid(1)

ThreadInit ==
  /\ ops = 0
  /\ profiles = [u \in {1, 2} |-> [role |-> IF u = 1 THEN "student" ELSE "manager", is_verified |-> FALSE]]
  /\ complaints = (ThreadComplaint :>
                     [ComplaintRow(1, FALSE, BaseData, NULL) EXCEPT !.created_at = 0, !.updated_at = 0])
  /\ messages = <<>>
  /\ attachments = {}
  /\ objects = {}
  /\ now = 0
  /\ ui = [u \in Users |-> [NoPage EXCEPT !.complaint = IF u \in {1, 2} THEN ThreadComplaint ELSE NULL]]
  /\ last = Request("none", NULL, NULL, NoError)

ThreadNext ==
  \/ \E u \in Users, newMessage \in NewMessages : SendMessage(u, newMessage)
  \/ \E caller \in Users, id \in ComplaintIds, sender \in Users \cup {NULL}, created_at \in {NULL, PastTime} :
       ApiInsertMessage(caller, id, sender, created_at)
  \/ \E caller \in Users, i \in 1..MaxMessages : ApiUpdateMessage(caller, i, Str(0, 6, 0))
  \/ \E caller \in Users, i \in 1..MaxMessages : ApiDeleteMessage(caller, i)
  \/ \E caller \in Users, id \in ComplaintIds : ApiDeleteComplaint(caller, id)
  \/ \E u \in Users, id \in ComplaintIds : FetchComplaintDetails(u, id)

ThreadSpec == ThreadInit /\ [][ThreadNext]_vars

\* ---- the manager dashboard on its own ----
\* A manager and an admin have the dashboard open on the one complaint
\* stored, and work on it at the same time; time is counted from there.

ManagerInit ==
  /\ ops = 0
  /\ profiles = [u \in {1, 2} |-> [role |-> IF u = 1 THEN "manager" ELSE "admin", is_verified |-> FALSE]]
  /\ complaints = (ComplaintUuid(1) :>
                     [ComplaintRow(1, FALSE, BaseData, NULL) EXCEPT !.created_at = 0, !.updated_at = 0])
  /\ messages = <<>>
  /\ attachments = {}
  /\ objects = {}
  /\ now = 0
  /\ ui = [u \in Users |->
             IF u \in {1, 2}
               THEN FiltersEffect([NoPage EXCEPT !.profile = profiles[u].role,
                                                 !.complaints = SelectComplaints(u),
                                                 !.stats = StatsOf(SelectComplaints(u))])
               ELSE NoPage]
  /\ last = Request("none", NULL, NULL, NoError)

\* what the two pick in the status Select and in the assignment dialog
ManagerPicks == {"acknowledged", "resolved"}
AssigneePicks == {2, NULL}

ManagerNext ==
  \/ \E u \in Users, id \in ComplaintIds, s \in ManagerPicks :
       ops < MaxClicks /\ UpdateComplaintStatusCall(u, id, s)
  \/ \E u \in Users, id \in ComplaintIds, m \in AssigneePicks :
       ops < MaxClicks /\ AssignComplaintCall(u, id, m)
  \/ \E u \in Users : FetchComplaintsServe(u)
  \/ \E u \in Users : \E data \in ui[u].responses : FetchComplaintsReturn(u, data)

ManagerSpec == ManagerInit /\ [][ManagerNext]_vars

\* ---- the references between the tables on their own ----
\* A student and a manager have each submitted a complaint with one
\* attachment; messages are posted, complaints assigned, and the operator
\* deletes complaints and profiles.

IntegrityInit ==
  /\ ops = 0
  /\ profiles = [u \in {1, 2} |-> [role |-> IF u = 1 THEN "student" ELSE "manager", is_verified |-> FALSE]]
  /\ complaints = [c \in {ComplaintUuid(1), ComplaintUuid(2)} |->
                     [ComplaintRow(c - NumUsers, FALSE, BaseData, NULL) EXCEPT !.created_at = 0, !.updated_at = 0]]
  /\ messages = <<>>
  /\ attachments = {[complaint_id |-> ComplaintUuid(n), uploader_id |-> n,
                     file_path |-> ObjectName(ComplaintUuid(n), 0, "png"), file_size |-> 1] : n \in {1, 2}}
  /\ objects = {[bucket_id |-> Bucket, name |-> ObjectName(ComplaintUuid(n), 0, "png")] : n \in {1, 2}}
  /\ now = 0
  /\ ui = [u \in Users |-> NoPage]
  /\ last = Request("none", NULL, NULL, NoError)

IntegrityNext ==
  \/ \E caller \in Users, id \in ComplaintIds, sender \in Users \cup {NULL} :
       ApiInsertMessage(caller, id, sender, NULL)
  \/ \E caller \in Users, id \in ComplaintIds, m \in Users \cup {NULL} : ApiAssign(caller, id, m)
  \/ \E caller \in Users, id \in ComplaintIds : ApiDeleteComplaint(caller, id)
  \/ \E id \in ComplaintIds : DeleteComplaint(id)
  \/ \E id \in Users : DeleteProfile(id)

IntegritySpec == IntegrityInit /\ [][IntegrityNext]_vars

\* ---- the filters of the manager dashboard on their own ----
\* A manager has the dashboard open on a list of complaints whose titles and
\* hubs are spelled out, and changes the search text and the three filters.

FilterUser == 1
\* title, hub, status and priority of the complaints listed
FilterSamples ==
  {[title |-> <<"W", "i", "F", "i">>, hub |-> <<"K", "o">>, status |-> "new", priority |-> "high"],
   [title |-> <<"f", "a", "n">>, hub |-> <<"L", "a", "b">>, status |-> "new", priority |-> "low"],
   [title |-> <<"f", "a", "n">>, hub |-> <<"K", "o">>, status |-> "resolved", priority |-> "high"],
   [title |-> <<"l", "a", "b">>, hub |-> <<"a", "l", "l">>, status |-> "closed", priority |-> "low"]}
\* the lists fetchComplaints may have put on the page, newest first
FilterLists ==
  UNION {{[i \in 1..n |->
             [id |-> ComplaintUuid(n + 1 - i), created_at |-> n + 1 - i,
              title |-> pick[i].title, hub |-> pick[i].hub,
              status |-> pick[i].status, priority |-> pick[i].priority]] :
            pick \in [1..n -> FilterSamples]} : n \in 0..MaxComplaints}
\* what is typed into the search box
FilterQueries == {<<>>, <<"w", "i">>, <<"F", "A">>, <<"k", "o">>, <<"l", "a", "b">>, <<"x">>}

FilterInit ==
  /\ ops = 0
  /\ profiles = (FilterUser :> [role |-> "manager", is_verified |-> FALSE])
  /\ complaints = <<>>
  /\ messages = <<>>
  /\ attachments = {}
  /\ objects = {}
  /\ now = 0
  /\ \E data \in FilterLists :
       ui = [u \in Users |->
               IF u = FilterUser
                 THEN FiltersEffect([NoPage EXCEPT !.profile = "manager", !.complaints = data])
                 ELSE NoPage]
  /\ last = Request("none", NULL, NULL, NoError)

FilterNext ==
  \/ \E value \in FilterQueries : SetSearchQuery(FilterUser, value)
  \/ \E value \in {"all"} \cup Statuses : SetStatusFilter(FilterUser, value)
  \/ \E value \in {"all"} \cup Priorities : SetPriorityFilter(FilterUser, value)
  \/ \E value \in {AllHubs} \cup UniqueHubs(ui[FilterUser].complaints) : SetHubFilter(FilterUser, value)

FilterSpec == FilterInit /\ [][FilterNext]_vars

TypeOK ==
  /\ DOMAIN profiles \subseteq Users
  /\ DOMAIN complaints \subseteq ComplaintIds
  /\ Len(messages) <= MaxMessages
  /\ now \in 0..MaxClock
  /\ ops \in 0..MaxOps

\* ---- properties ----

Students == {u \in DOMAIN profiles : profiles[u].role = "student"}
ListedIds == {last.rows[i].id : i \in 1..Len(last.rows)}
FetchOps == {"Dashboard.fetchComplaints", "ManagerDashboard.fetchComplaints"}

\* C1: every stored complaint with is_anonymous = true has user_id null.
C1_AnonymousHasNoSubmitter ==
  \A c \in DOMAIN complaints : complaints[c].is_anonymous = TRUE => complaints[c].user_id = NULL

\* C2: a listing run by a student holds exactly the stored complaints whose
\* user_id is the caller; a listing run by a manager or admin holds all of them.
C2_ListExact ==
  last.op \in FetchOps =>
    /\ last.role = "student" =>
         ListedIds = {c \in DOMAIN complaints : complaints[c].user_id = last.caller}
    /\ last.role \in StaffRoles => ListedIds = DOMAIN complaints
    /\ \A i \in 1..Len(last.rows) :
         /\ last.rows[i].status = complaints[last.rows[i].id].status
         /\ last.rows[i].user_id = complaints[last.rows[i].id].user_id
    /\ Len(last.rows) = Cardinality(ListedIds)

\* a student listed while the store held a complaint of theirs and one that is not
C2_Witness ==
  /\ last.op = "Dashboard.fetchComplaints"
  /\ last.role = "student"
  /\ \E c \in DOMAIN complaints : complaints[c].user_id = last.caller /\ c \in ListedIds
  /\ \E c \in DOMAIN complaints : complaints[c].user_id # last.caller /\ c \notin ListedIds

\* C3: a profile update issued by a student or a manager leaves role and
\* is_verified of every profile as they were.
C3_SelfUpdateKeepsRole ==
  [][(last'.op = "updateProfile" /\ last'.role \in {"student", "manager"}) =>
       \A u \in DOMAIN profiles :
         /\ profiles'[u].role = profiles[u].role
         /\ profiles'[u].is_verified = profiles[u].is_verified]_vars

\* C4: a profile created by the sign-up trigger has role student, whatever
\* the registering user supplied.
C4_NewProfileIsStudent ==
  [][\A u \in (DOMAIN profiles') \ (DOMAIN profiles) : profiles'[u].role = "student"]_vars

\* C5: update_status and assign issued by a student on a stored complaint
\* return an error, and the caller is not shown a success notification.
C5_StudentUpdateFails ==
  (/\ last.op \in {"updateStatus", "assign", "updateComplaintStatus", "assignComplaint"}
   /\ last.role = "student"
   /\ last.target \in DOMAIN complaints) =>
    /\ last.error # NoError
    /\ last.toast \notin {"Status updated successfully", "Complaint assigned successfully", "Assignment removed"}

\* C6: no operation issued by a student changes status or manager_id of a
\* stored complaint.
C6_StudentLeavesStatusAndManager ==
  [][last'.role = "student" =>
       \A c \in DOMAIN complaints :
         /\ complaints'[c].status = complaints[c].status
         /\ complaints'[c].manager_id = complaints[c].manager_id]_vars

\* a student has sent an update of status or assignment for their own complaint
C6_Witness ==
  /\ last.op \in {"updateStatus", "assign"}
  /\ last.role = "student"
  /\ last.target \in DOMAIN complaints
  /\ complaints[last.target].user_id = last.caller

\* C7: no message is added to the thread of a complaint by a student who is
\* not the submitter of that complaint (stated for complaints that record one).
C7_OnlyOwnerOrStaffPosts ==
  [][Len(messages') > Len(messages) =>
       LET m == messages'[Len(messages')]
       IN ~(/\ last'.role = "student"
            /\ complaints[m.complaint_id].user_id # NULL
            /\ complaints[m.complaint_id].user_id # last'.caller)]_vars

\* C8: every complaint is created either with user_id equal to the id of the
\* caller who created it or flagged anonymous.
C8_CreatedAsSelfOrAnonymous ==
  [][\A c \in (DOMAIN complaints') \ (DOMAIN complaints) :
       complaints'[c].user_id = last'.caller \/ complaints'[c].is_anonymous = TRUE]_vars

\* a caller has created a complaint that is not anonymous
C8_Witness ==
  /\ last.op \in {"insertComplaint", "handleSubmit"}
  /\ last.error = NoError
  /\ last.target \in DOMAIN complaints
  /\ complaints[last.target].is_anonymous = FALSE
  /\ complaints[last.target].user_id = last.caller

\* what the caller can observe of a run of fetchComplaintDetails
NotFoundOutcome ==
  [error |-> NoRows, toast |-> "Failed to load complaint details", route |-> "/dashboard",
   complaint |-> <<>>, messages |-> <<>>]

\* C9: for a student, opening a complaint that does not exist and opening
\* one that belongs to someone else give the same error, notification,
\* navigation and data.
C9_Indistinguishable ==
  /\ \A u \in Students : \A c \in DOMAIN complaints : \A a \in ComplaintIds \ DOMAIN complaints :
       complaints[c].user_id # u =>
         FetchDetailsOutcome(complaints, messages, u, c) = FetchDetailsOutcome(complaints, messages, u, a)
  /\ (/\ last.op = "fetchComplaintDetails"
      /\ last.role = "student"
      /\ (last.target \in DOMAIN complaints => complaints[last.target].user_id # last.caller)) =>
       /\ [error |-> last.error, toast |-> last.toast, route |-> last.route,
           complaint |-> last.rows, messages |-> <<>>] = NotFoundOutcome
       /\ ui[last.caller].complaint = NULL

\* a student has opened a stored complaint submitted by another principal,
\* while some complaint id is still unused
C9_Witness ==
  /\ last.op = "fetchComplaintDetails"
  /\ last.role = "student"
  /\ last.target \in DOMAIN complaints
  /\ complaints[last.target].user_id \in DOMAIN profiles
  /\ complaints[last.target].user_id # last.caller
  /\ ComplaintIds \ DOMAIN complaints # {}

\* C10: a download of an attachment blob stored under <complaint_id>/...
\* succeeds exactly when the caller can read that complaint.
C10_BlobReadFollowsComplaint ==
  (last.op = "download" /\ last.target \in DOMAIN complaints) =>
    (last.error = NoError <=> ComplaintsSelectUsing(last.caller, complaints[last.target]))

\* ---- the submission form ----

\* a form whose category, hub, room and priority are the valid ones of BaseData
OtherFieldsValid(form) ==
  [form EXCEPT !.title = BaseData.title, !.description = BaseData.description] = BaseData

\* C11 (as stated, lengths of the values typed): with the other fields valid,
\* a submission passes validation exactly when the title has 5..200 and the
\* description 20..2000 characters; a rejected one changes nothing in the store.
C11_RawLengthBoundaries ==
  [][(last'.op = "handleSubmit" /\ OtherFieldsValid(last'.arg)) =>
       /\ last'.error # ZodError <=>
            /\ StrLen(last'.arg.title) \in TitleMin..TitleMax
            /\ StrLen(last'.arg.description) \in DescriptionMin..DescriptionMax
       /\ last'.error = ZodError => UNCHANGED store]_vars

\* C11 (amended): the same with the lengths counted after leading and
\* trailing whitespace is removed: trimmed title of 4 rejected, 5 accepted,
\* over 200 rejected; trimmed description of 19 rejected, 20 accepted, over
\* 2000 rejected; a rejected submission sends no request and stores no row.
C11_TrimmedLengthBoundaries ==
  [][(last'.op = "handleSubmit" /\ OtherFieldsValid(last'.arg)) =>
       /\ last'.error # ZodError <=>
            /\ StrLen(Trim(last'.arg.title)) \in TitleMin..TitleMax
            /\ StrLen(Trim(last'.arg.description)) \in DescriptionMin..DescriptionMax
       /\ last'.error = ZodError =>
            /\ UNCHANGED store
            /\ last'.toast \in {"Title must be at least 5 characters", "Title too long",
                                "Description must be at least 20 characters", "Description too long"}]_vars

\* a title of 200 characters between two blanks was accepted and stored
C11_Witness ==
  /\ last.op = "handleSubmit"
  /\ last.arg.title = Str(1, TitleMax, 1)
  /\ last.error = NoError
  /\ last.target \in DOMAIN complaints

\* C12: a submission whose other fields are valid and whose room is left
\* empty passes validation, and the row it stores has no room.
C12_EmptyRoomAccepted ==
  (last.op = "handleSubmit" /\ last.arg = [BaseData EXCEPT !.room = Str(0, 0, 0)]) =>
    /\ last.error # ZodError
    /\ last.error = NoError => complaints[last.target].room = NullStr

\* ---- the message thread ----

IsSortedByCreatedAt(seq) ==
  \A i \in 1..Len(seq) : \A j \in 1..Len(seq) : i <= j => seq[i].created_at <= seq[j].created_at
MessagesOf(tbl, id) == SelectSeq(tbl, LAMBDA m : m.complaint_id = id)
Range(seq) == {seq[i] : i \in 1..Len(seq)}

\* C13: sendMessage with an empty or blank text sends no request and changes
\* nothing; with any other text it adds one message with that text to the
\* thread, and the message is in the list the page then shows; every list of
\* a thread a page shows holds all the messages of the thread by ascending
\* created_at.
C13_PostedAndListedInOrder ==
  [][/\ last'.op = "sendMessage" =>
          IF StrLen(Trim(last'.arg)) = 0
            THEN last'.error = Returned /\ UNCHANGED store
            ELSE /\ last'.error = NoError
                 /\ messages' = Append(messages, MessageRow(last'.target, last'.caller, Trim(last'.arg), NULL))
                 /\ StrLen(messages'[Len(messages')].body) > 0
                 /\ messages'[Len(messages')] \in Range(Tail(last'.rows))
     /\ (last'.op \in {"sendMessage", "fetchComplaintDetails"} /\ last'.error = NoError) =>
          /\ IsSortedByCreatedAt(Tail(last'.rows))
          /\ Range(Tail(last'.rows)) = Range(MessagesOf(messages', last'.target))
          /\ Len(Tail(last'.rows)) = Len(MessagesOf(messages', last'.target))]_vars

\* a page listed a thread of two messages, one of them posted through
\* sendMessage, in another order than the one they were stored in
C13_Witness ==
  /\ last.op = "fetchComplaintDetails"
  /\ last.error = NoError
  /\ Len(Tail(last.rows)) = 2
  /\ Tail(last.rows) # MessagesOf(messages, last.target)
  /\ \E i \in 1..Len(messages) : messages[i].body = Str(0, 3, 0)

\* C14: no operation changes or removes a stored message: every message of
\* the thread stays where it is with its body and sender.
C14_ThreadAppendOnly ==
  [][\A i \in 1..Len(messages) : i <= Len(messages') /\ messages'[i] = messages[i]]_vars

\* the sender of a stored message has sent an update of it, and a manager a
\* delete
C14_Witness ==
  /\ Len(messages) > 0
  /\ \/ last.op = "updateMessage" /\ \E i \in 1..Len(messages) : messages[i].sender_id = last.caller
     \/ last.op = "deleteMessage" /\ last.role = "manager"

\* ---- attachments of the form ----

AttachmentsOf(tbl, id) == {a \in tbl : a.complaint_id = id}
IsPrefix(p, seq) == Len(p) <= Len(seq) /\ SubSeq(seq, 1, Len(p)) = p
TooLargeToast == "is too large. Maximum size is 10MB."

\* C15: the list of pending files never holds more than 5 files: a selection
\* adds its files in order up to the fifth and drops the rest; a submission
\* uploads at most 5 files, and the complaint it creates has at most 5
\* attachment rows.
C15_AtMostFiveFiles ==
  [][/\ \A u \in Users : Len(ui'[u].files) <= MaxPendingFiles
     /\ last'.op = "handleFileChange" =>
          LET before == ui[last'.caller].files
              after == ui'[last'.caller].files
              added == SelectSeq(last'.arg, LAMBDA file : file.size <= MaxFileSize)
          IN /\ IsPrefix(after, before \o added)
             /\ Len(after) < MaxPendingFiles => after = before \o added
     /\ last'.op = "handleSubmit" =>
          /\ Len(last'.rows) <= MaxPendingFiles
          /\ Cardinality(AttachmentsOf(attachments', last'.target)) <= MaxPendingFiles
     /\ \A c \in DOMAIN complaints' : Cardinality(AttachmentsOf(attachments', c)) <= MaxPendingFiles]_vars

\* a selection was cut: five files are pending and the last file of the
\* selection, small enough, is not among them at the end
C15_Witness ==
  /\ last.op = "handleFileChange"
  /\ Len(ui[last.caller].files) = MaxPendingFiles
  /\ last.arg[Len(last.arg)].size <= MaxFileSize
  /\ ui[last.caller].files[MaxPendingFiles] # last.arg[Len(last.arg)]

\* C16: a selected file of exactly 10 MiB goes into the pending list, a file
\* of one byte more is left out with a notification; no pending file and no
\* file given to an upload is larger than 10 MiB.
C16_FileSizeCeiling ==
  [][/\ \A u \in Users : \A i \in 1..Len(ui'[u].files) : ui'[u].files[i].size <= MaxFileSize
     /\ last'.op = "handleFileChange" =>
          LET before == ui[last'.caller].files
              after == ui'[last'.caller].files
          IN /\ (\E i \in 1..Len(last'.arg) : last'.arg[i].size >= MaxFileSize + 1) <=> last'.toast = TooLargeToast
             /\ Len(before) + Len(last'.arg) <= MaxPendingFiles =>
                  \A i \in 1..Len(last'.arg) :
                    last'.arg[i].size = MaxFileSize => \E j \in Len(before) + 1..Len(after) : after[j] = last'.arg[i]
     /\ last'.op = "handleSubmit" =>
          \A i \in 1..Len(last'.rows) : last'.rows[i].size <= MaxFileSize]_vars

\* a selection held a file of exactly 10 MiB and one of a byte more: the
\* first is pending, the second was notified
C16_Witness ==
  /\ last.op = "handleFileChange"
  /\ \E i \in 1..Len(last.arg) : last.arg[i].size = MaxFileSize + 1
  /\ \E i \in 1..Len(last.arg) : last.arg[i].size = MaxFileSize
  /\ \E j \in 1..Len(ui[last.caller].files) : ui[last.caller].files[j].size = MaxFileSize
  /\ last.toast = TooLargeToast

\* the upload requests of a submission that came back without / with an error
OkCalls(calls) == SelectSeq(calls, LAMBDA call : call.error = NoError)
FailedCalls(calls) == SelectSeq(calls, LAMBDA call : call.error # NoError)

\* C17: a submission whose complaint row was inserted keeps that row whatever
\* the uploads return: every pending file is given to one upload, the files
\* whose upload failed get no attachment row, so the complaint has fewer
\* attachment rows than files, and nothing stored before is taken back.
C17_SubmitNotAtomic ==
  [][(last'.op = "handleSubmit" /\ last'.error = NoError) =>
       /\ last'.target \in DOMAIN complaints' \ DOMAIN complaints
       /\ Len(last'.rows) = Len(ui[last'.caller].files)
       /\ Cardinality(AttachmentsOf(attachments', last'.target)) = Len(OkCalls(last'.rows))
       /\ FailedCalls(last'.rows) # <<>> =>
            Cardinality(AttachmentsOf(attachments', last'.target)) < Len(ui[last'.caller].files)
       /\ \A c \in DOMAIN complaints : complaints'[c] = complaints[c]
       /\ objects \subseteq objects'
       /\ attachments \subseteq attachments']_vars

\* a submission of three files whose second upload failed and whose third
\* went through
C17_Witness ==
  /\ last.op = "handleSubmit"
  /\ last.error = NoError
  /\ last.target \in DOMAIN complaints
  /\ \E i \in 1..Len(last.rows) : \E j \in 1..Len(last.rows) :
       i < j /\ last.rows[i].error # NoError /\ last.rows[j].error = NoError
  /\ Cardinality(AttachmentsOf(attachments, last.target)) = Len(last.rows) - 1

\* the handlers of the pages, and the notifications that report an error
HandlerOps ==
  {"handleSubmit", "sendMessage", "updateComplaintStatus", "assignComplaint", "fetchComplaintDetails",
   "Dashboard.fetchComplaints", "ManagerDashboard.fetchComplaints", "checkManagerAccess"}
SuccessToasts ==
  {"none", "Complaint submitted successfully!", "Message sent", "Status updated successfully",
   "Complaint assigned successfully", "Assignment removed"}

\* C18: whenever a request of a handler returns an error, the handler shows
\* an error notification.
C18_ErrorsNotified ==
  last.op \in HandlerOps =>
    /\ last.error \notin {NoError, Returned} => last.toast \notin SuccessToasts
    /\ last.op = "handleSubmit" =>
         (FailedCalls(last.rows) # <<>> => last.toast \notin SuccessToasts)

\* ---- status and timestamps ----

StatusUpdateOps == {"updateStatus", "updateComplaintStatus"}
ComplaintUpdateOps == {"updateStatus", "assign", "updateComplaintStatus", "assignComplaint"}

\* C19: whatever status a complaint has and whatever status is asked for, an
\* update of the status sent by a manager or an admin is accepted and the
\* complaint then has the status asked for.
C19_AnyStatusToAnyStatus ==
  [][(/\ last'.op \in StatusUpdateOps
      /\ last'.role \in StaffRoles
      /\ last'.target \in DOMAIN complaints) =>
       /\ last'.error = NoError
       /\ last'.before = complaints[last'.target].status
       /\ complaints'[last'.target].status = last'.arg
       /\ last'.op = "updateComplaintStatus" => last'.toast = "Status updated successfully"]_vars

\* a manager or an admin has moved a closed complaint back to new
C19_Witness ==
  /\ last.op \in StatusUpdateOps
  /\ last.role \in StaffRoles
  /\ last.before = "closed"
  /\ last.arg = "new"
  /\ complaints[last.target].status = "new"

\* C20: an update of a complaint row that applies sets updated_at to the
\* time of the update: later than the updated_at the row had, and not
\* earlier than its created_at.
C20_UpdatedAtAdvances ==
  [][(/\ last'.op \in ComplaintUpdateOps
      /\ last'.role \in StaffRoles
      /\ last'.error = NoError
      /\ last'.target \in DOMAIN complaints) =>
       /\ complaints'[last'.target].updated_at = Now
       /\ complaints'[last'.target].updated_at > complaints[last'.target].updated_at
       /\ complaints'[last'.target].updated_at >= complaints'[last'.target].created_at]_vars

\* ---- two managers at once ----

\* the row of complaint id on the page of u (the page lists it)
ShownRow(u, id) ==
  ui[u].complaints[CHOOSE i \in 1..Len(ui[u].complaints) : ui[u].complaints[i].id = id]
\* fetches of u's page that have not come back yet
InFlight(u) == ui[u].requests + Cardinality(ui[u].responses)
DashboardUpdateOps == {"updateComplaintStatus", "assignComplaint"}

\* C21: a status update a manager or an admin makes from the dashboard is
\* applied and reported as a success whatever another manager has written
\* to the same complaint since the page was loaded: no conflict is raised,
\* the complaint has the status of the update applied last, and the page
\* asks for the list again.
C21_LastStatusWriteWins ==
  [][(/\ ops' # ops
      /\ last'.op = "updateComplaintStatus"
      /\ last'.role \in StaffRoles) =>
       /\ last'.error = NoError
       /\ last'.toast = "Status updated successfully"
       /\ complaints'[last'.target].status = last'.arg
       /\ ui'[last'.caller].requests = ui[last'.caller].requests + 1]_vars

\* each of the two has made one update: the second set a status over the
\* different one the first had just set, from a page that still shows the
\* status from before either update, while the re-fetch of the first is
\* still in flight
C21_Witness ==
  /\ ops = 2
  /\ last.op = "updateComplaintStatus"
  /\ last.before # ShownRow(last.caller, last.target).status
  /\ last.before # last.arg
  /\ complaints[last.target].status = last.arg
  /\ \E other \in DOMAIN profiles : other # last.caller /\ InFlight(other) > 0

\* C22: a status update changes the status and leaves manager_id as stored,
\* an assignment changes manager_id and leaves the status as stored: when
\* one manager updates the status and another assigns the same complaint at
\* the same time, the row ends with the new status and the new manager_id in
\* either order.
C22_StatusAndAssignBothKept ==
  [][(ops' # ops /\ last'.op \in DashboardUpdateOps /\ last'.role \in StaffRoles /\ last'.error = NoError) =>
       /\ last'.op = "updateComplaintStatus" =>
            /\ complaints'[last'.target].status = last'.arg
            /\ complaints'[last'.target].manager_id = complaints[last'.target].manager_id
       /\ last'.op = "assignComplaint" =>
            /\ complaints'[last'.target].manager_id = last'.arg
            /\ complaints'[last'.target].status = complaints[last'.target].status]_vars

\* each of the two has made one update: the assignment was made from a page
\* that still shows the old status, after the other manager changed the
\* status: the row has the new status and the new manager
C22_Witness ==
  /\ ops = 2
  /\ last.op = "assignComplaint"
  /\ last.error = NoError
  /\ last.arg # NULL
  /\ ShownRow(last.caller, last.target).status # complaints[last.target].status
  /\ ShownRow(last.caller, last.target).manager_id # last.arg
  /\ complaints[last.target].manager_id = last.arg
  /\ \E other \in DOMAIN profiles : other # last.caller /\ InFlight(other) > 0

\* what a row of the list shows of a complaint that the dashboard can change
OnPage(list) ==
  [i \in 1..Len(list) |-> [id |-> list[i].id, status |-> list[i].status, manager_id |-> list[i].manager_id]]

\* C27: when the last change of the store was a status update or an
\* assignment made from a dashboard, and every fetch of that dashboard has
\* come back, the list and the counts on it are those of the stored state.
C27_FreshAfterRefetch ==
  \A u \in DOMAIN profiles :
    (/\ last.op \in DashboardUpdateOps
     /\ last.caller = u
     /\ last.error = NoError
     /\ InFlight(u) = 0) =>
      /\ OnPage(ui[u].complaints) = OnPage(SelectComplaints(u))
      /\ ui[u].stats = StatsOf(SelectComplaints(u))

\* ---- the pages and who they are for ----

\* C23: whatever the role of the caller, every complaint /dashboard lists
\* and counts has the caller as its user_id.
C23_DashboardOwnOnly ==
  last.op = "Dashboard.fetchComplaints" =>
    \A i \in 1..Len(last.rows) : last.rows[i].user_id = last.caller

\* ---- references between the tables ----

\* every message and every attachment row of tblM, tblA refers to a complaint of tblC
RefersToComplaints(tblC, tblM, tblA) ==
  /\ \A i \in 1..Len(tblM) : tblM[i].complaint_id \in DOMAIN tblC
  /\ \A a \in tblA : a.complaint_id \in DOMAIN tblC

\* C24: every message and every attachment row refers to a stored complaint:
\* deleting a complaint deletes exactly its messages and attachment rows.
\* Deleting a profile deletes no complaint, message or attachment row: it
\* sets the user_id, manager_id, sender_id and uploader_id that referred to
\* the profile to null and leaves every other reference as it was.
C24_ReferencesKept ==
  [][/\ RefersToComplaints(complaints', messages', attachments')
     /\ last'.op = "cloudDashboard.deleteComplaint" =>
          /\ messages' = SelectSeq(messages, LAMBDA m : m.complaint_id # last'.target)
          /\ attachments' = {a \in attachments : a.complaint_id # last'.target}
          /\ \A c \in DOMAIN complaints' : complaints'[c] = complaints[c]
     /\ last'.op = "cloudDashboard.deleteProfile" =>
          /\ DOMAIN complaints' = DOMAIN complaints
          /\ Len(messages') = Len(messages)
          /\ Cardinality(attachments') = Cardinality(attachments)
          /\ \A c \in DOMAIN complaints :
               /\ complaints'[c].user_id = IF complaints[c].user_id = last'.target THEN NULL ELSE complaints[c].user_id
               /\ complaints'[c].manager_id =
                    IF complaints[c].manager_id = last'.target THEN NULL ELSE complaints[c].manager_id
               /\ complaints'[c].status = complaints[c].status
          /\ \A i \in 1..Len(messages) :
               /\ messages'[i].sender_id = IF messages[i].sender_id = last'.target THEN NULL ELSE messages[i].sender_id
               /\ messages'[i].complaint_id = messages[i].complaint_id
               /\ messages'[i].body = messages[i].body
          /\ \A a \in attachments' : a.uploader_id \in DOMAIN profiles' \cup {NULL}
          /\ \A c \in DOMAIN complaints' :
               {complaints'[c].user_id, complaints'[c].manager_id} \subseteq DOMAIN profiles' \cup {NULL}]_vars

\* after one of the two complaints was deleted with its attachment row, the
\* profile that had submitted the other one, uploaded its attachment and
\* sent a message was deleted: complaint, attachment row and message are
\* still there, without the reference
C24_Witness ==
  /\ last.op = "cloudDashboard.deleteProfile"
  /\ Cardinality(DOMAIN complaints) = 1
  /\ Cardinality(attachments) = 1
  /\ \E c \in DOMAIN complaints : complaints[c].user_id = NULL /\ ~complaints[c].is_anonymous
  /\ \E a \in attachments : a.uploader_id = NULL
  /\ \E i \in 1..Len(messages) : messages[i].sender_id = NULL

\* C25: the manager dashboard loads a profile only when its role is manager
\* or admin: for a student, and when the lookup of the profile fails,
\* checkManagerAccess notifies, navigates to /dashboard and leaves profile
\* unset; fetchComplaints of the manager dashboard runs only on a page that
\* has loaded the profile of a manager or an admin.
C25_ManagerDashboardGuard ==
  /\ \A u \in Users : ui[u].profile \in {"none"} \cup StaffRoles
  /\ (last.op = "checkManagerAccess" /\ (last.role \notin StaffRoles \/ last.error # NoError)) =>
       /\ last.route = "/dashboard"
       /\ last.toast \in {"Access denied. Manager or admin role required.", "Failed to verify access"}
       /\ ui[last.caller].profile = "none"
  /\ (last.op = "checkManagerAccess" /\ last.role \in StaffRoles /\ last.error = NoError) =>
       ui[last.caller].profile = last.role
  /\ last.op = "ManagerDashboard.fetchComplaints" => ui[last.caller].profile \in StaffRoles

\* a student opened the manager dashboard while the store held a complaint
\* that is not theirs, and was sent away
C25_Witness ==
  /\ last.op = "checkManagerAccess"
  /\ last.role = "student"
  /\ last.error = NoError
  /\ last.route = "/dashboard"
  /\ ui[last.caller].profile = "none"
  /\ \E c \in DOMAIN complaints : complaints[c].user_id # last.caller

\* ---- the filters of the manager dashboard ----

\* text holds part, upper and lower case letters taken as the same
ContainsIgnoringCase(text, part) ==
  \E i \in 0..(Len(text) - Len(part)) :
    \A k \in 1..Len(part) : LowerChar(text[i + k]) = LowerChar(part[k])

\* complaint c passes every filter of page that is active
PassesFilters(c, page) ==
  /\ \/ page.searchQuery = <<>>
     \/ ContainsIgnoringCase(c.title, page.searchQuery)
     \/ ContainsIgnoringCase(c.hub, page.searchQuery)
  /\ page.statusFilter = "all" \/ c.status = page.statusFilter
  /\ page.priorityFilter = "all" \/ c.priority = page.priorityFilter
  /\ page.hubFilter = AllHubs \/ c.hub = page.hubFilter

C28_AnonymousSubmitCompletes ==
  (/\ last.op = "handleSubmit"
   /\ last.role = "student"
   /\ last.anonymous
   /\ ComplaintSchemaIssues(FormDataOf(last.arg)) = <<>>) =>
    /\ last.error = NoError
    /\ last.toast = "Complaint submitted successfully!"
    /\ last.target \in DOMAIN complaints
    /\ complaints[last.target].is_anonymous = TRUE

\* C29: the row a submission stores has a title of 5..200 and a description
\* of 20..2000 characters, and they are the trimmed values the schema checked.
C29_StoredTextWithinLimits ==
  (last.op = "handleSubmit" /\ last.error = NoError) =>
    /\ StrLen(complaints[last.target].title) \in TitleMin..TitleMax
    /\ StrLen(complaints[last.target].description) \in DescriptionMin..DescriptionMax
    /\ complaints[last.target].title = Trim(last.arg.title)
    /\ complaints[last.target].description = Trim(last.arg.description)

\* C30: the files of one submission are uploaded under keys that differ from
\* one another, whatever the clock reads between two uploads.
C30_DistinctKeys ==
  (last.op = "handleSubmit" /\ last.error = NoError) =>
    \A i \in 1..Len(last.rows) : \A j \in 1..Len(last.rows) :
      i # j => last.rows[i].name # last.rows[j].name

====
